---- MODULE Spec2Model ----
(***************************************************************************)
(* The object model of zork1_python: the containment graph of GameObject   *)
(* (location / contents), the accessibility resolver, the container state  *)
(* machine with what a container shows and holds, the health and combat   *)
(* of the actors, and the light and the description of a room.            *)
(***************************************************************************)
EXTENDS Integers, Sequences, FiniteSets, TLC

VARIABLES location, contents, flags, health, is_dead,
          light_level, visited, obj_seen, output, pc, last

vars == <<location, contents, flags, health, is_dead,
          light_level, visited, obj_seen, output, pc, last>>

\* The fields of the actors that the graph and container operations leave alone.
actorVars == <<health, is_dead>>

\* The fields of the rooms, the seen mark of the objects (obj.seen) and the text
\* of the last description, which only the room operations change.
roomVars == <<light_level, visited, obj_seen, output>>

----------------------------------------------------------------------------
(* The world: one object of each class, as built by a world builder.       *)

None == "None"

\* What a call returns: Python's True and False, or Diverges for a call whose loop
\* never ends (a parent chain that is a cycle), which returns nothing.
True == "True"
False == "False"
Diverges == "diverges"

\* A call that returned a value the record of the call does not hold (a list, a
\* number): the value is recomputed from the state where it is needed.
Returned == "returned"

\* A call that ends in an exception (RecursionError: a recursion over contents
\* that meet themselves again).
Raises == "raises"

Entities == {"R", "table", "box", "coin", "actor"}

\* The class of each object (isinstance).
kind ==
    [e \in Entities |->
        CASE e = "R" -> "Room"
          [] e = "table" -> "Container"
          [] e = "box" -> "Container"
          [] e = "coin" -> "Item"
          [] e = "actor" -> "Actor"]

Rooms == {e \in Entities : kind[e] = "Room"}
Containers == {e \in Entities : kind[e] = "Container"}
Actors == {e \in Entities : kind[e] = "Actor"}

\* Container.is_surface, fixed at construction.
is_surface == [e \in Entities |-> e = "table"]

\* ObjectFlag bits, by bit position (auto() gives 1 << position).
INVISIBLE == 0
NDESCBIT == 1
CONTBIT == 3
SURFACEBIT == 4
OPENBIT == 5
TRANSBIT == 6
LIGHTBIT == 12
ONBIT == 13
ACTORBIT == 15
WEAPONBIT == 18
LOCKEDBIT == 34
OPENABLE == 35

\* GameObject.has_flag: bool(self.flags & flag).
has_flag(fl, e, bit) == bit \in fl[e]

\* GameObject.set_flag: self.flags |= flag.
set_flag(fl, e, bit) == [fl EXCEPT ![e] = @ \cup {bit}]

\* GameObject.clear_flag: self.flags &= ~flag.
clear_flag(fl, e, bit) == [fl EXCEPT ![e] = @ \ {bit}]

----------------------------------------------------------------------------
(* List helpers, as Python's list does them.                               *)

\* x in s
InSeq(x, s) == \E i \in 1..Len(s) : s[i] = x

\* The number of occurrences of x in s.
Count(x, s) == Cardinality({i \in 1..Len(s) : s[i] = x})

\* list.remove(x) without the element: nothing is removed.
RemoveNothing(s, x) == s

\* list.remove(x): drops the first occurrence of x.
Remove(s, x) ==
    LET i == CHOOSE i \in 1..Len(s) : s[i] = x /\ \A j \in 1..(i - 1) : s[j] # x
    IN  SubSeq(s, 1, i - 1) \o SubSeq(s, i + 1, Len(s))

----------------------------------------------------------------------------
(* The containment graph (objects/base.py).                                *)

\* move_to with the detach done after the location is assigned: the object is
\* looked for in the new parent's list, and the old parent keeps it.
MoveToLateDetach(loc, con, e, P) ==
    LET loc1 == [loc EXCEPT ![e] = P]
        con1 == IF loc1[e] # None /\ InSeq(e, con[loc1[e]])
                THEN [con EXCEPT ![loc1[e]] = Remove(@, e)]
                ELSE con
        con2 == IF P # None /\ ~InSeq(e, con1[P])
                THEN [con1 EXCEPT ![P] = Append(@, e)]
                ELSE con1
    IN  [location |-> loc1, contents |-> con2]

\* move_to that detaches only when the parent changes and appends without
\* looking for the object in the new parent's list.
MoveToBlindAppend(loc, con, e, P) ==
    LET old == loc[e]
        con1 == IF old # None /\ old # P /\ InSeq(e, con[old])
                THEN [con EXCEPT ![old] = Remove(@, e)]
                ELSE con
        loc1 == [loc EXCEPT ![e] = P]
        con2 == IF P # None
                THEN [con1 EXCEPT ![P] = Append(@, e)]
                ELSE con1
    IN  [location |-> loc1, contents |-> con2]

\* GameObject.move_to(new_location): the graph after the call.  There is no
\* check of the target: any object, the object itself included, is accepted.
MoveTo(loc, con, e, P) ==
    LET old == loc[e]
        \* Remove from old location
        con1 == IF old # None /\ InSeq(e, con[old])
                THEN [con EXCEPT ![old] = Remove(@, e)]
                ELSE con
        \* Add to new location
        loc1 == [loc EXCEPT ![e] = P]
        con2 == IF P # None /\ ~InSeq(e, con1[P])
                THEN [con1 EXCEPT ![P] = Append(@, e)]
                ELSE con1
    IN  [location |-> loc1, contents |-> con2]

\* GameObject.is_in(container): direct-parent equality.
is_in(loc, e, c) == loc[e] = c

\* The loop of get_room from obj on; seen holds the objects already visited, and
\* meeting one of them again means the loop never ends.
RECURSIVE GetRoomFrom(_, _, _)
GetRoomFrom(loc, obj, seen) ==
    IF obj = None THEN None
    ELSE IF kind[obj] = "Room" THEN obj
    ELSE IF obj \in seen THEN Diverges
    ELSE GetRoomFrom(loc, loc[obj], seen \cup {obj})

\* GameObject.get_room(): the nearest Room on the parent chain, self included.
get_room(loc, e) == GetRoomFrom(loc, e, {})

\* Actor.can_carry(obj).
can_carry(a, obj) == TRUE

\* Actor.give_item(item): (returned value, graph after).
give_item(loc, con, a, item) ==
    IF ~can_carry(a, item)
    THEN [ok |-> False, location |-> loc, contents |-> con]
    ELSE LET m == MoveTo(loc, con, item, a)
         IN  [ok |-> True, location |-> m.location, contents |-> m.contents]

\* Actor.drop_item(item): (returned value, graph after).
drop_item(loc, con, a, item) ==
    IF ~InSeq(item, con[a])
    THEN [ok |-> False, location |-> loc, contents |-> con]
    ELSE LET room == get_room(loc, a)
         IN  IF room = Diverges
             THEN [ok |-> Diverges, location |-> loc, contents |-> con]
             ELSE IF room # None
             THEN LET m == MoveTo(loc, con, item, room)
                  IN  [ok |-> True, location |-> m.location, contents |-> m.contents]
             ELSE [ok |-> False, location |-> loc, contents |-> con]

----------------------------------------------------------------------------
(* The container transitions (objects/container.py).                       *)

\* Container.is_open: a surface is always open.
is_open(fl, c) == IF is_surface[c] THEN TRUE ELSE has_flag(fl, c, OPENBIT)

\* Container.is_openable: a surface is not.
is_openable(fl, c) == IF is_surface[c] THEN FALSE ELSE has_flag(fl, c, OPENABLE)

\* Container.is_transparent.
is_transparent(fl, c) == has_flag(fl, c, TRANSBIT)

\* Container.is_locked.
is_locked(fl, c) == has_flag(fl, c, LOCKEDBIT)

\* open() without the locked test: a locked container opens.
OpenIgnoresLock(fl, c) ==
    IF is_surface[c]
    THEN [ok |-> False, msg |-> "You can't open that.", flags |-> fl]
    ELSE IF ~is_openable(fl, c)
    THEN [ok |-> False, msg |-> "You can't open that.", flags |-> fl]
    ELSE IF is_open(fl, c)
    THEN [ok |-> False, msg |-> "The {short_desc} is already open.", flags |-> fl]
    ELSE [ok |-> True, msg |-> "Opened.",
          flags |-> [fl EXCEPT ![c] = @ \cup {OPENBIT}]]

\* open() without the already-open test: opening an open container succeeds.
OpenAgainSucceeds(fl, c) ==
    IF is_surface[c]
    THEN [ok |-> False, msg |-> "You can't open that.", flags |-> fl]
    ELSE IF ~is_openable(fl, c)
    THEN [ok |-> False, msg |-> "You can't open that.", flags |-> fl]
    ELSE IF is_locked(fl, c)
    THEN [ok |-> False, msg |-> "The {short_desc} is locked.", flags |-> fl]
    ELSE [ok |-> True, msg |-> "Opened.",
          flags |-> [fl EXCEPT ![c] = @ \cup {OPENBIT}]]

\* open() that sets OPENBIT before it looks at the lock: a Locked container is
\* refused, but left Open.
OpenBeforeLockTest(fl, c) ==
    IF is_surface[c]
    THEN [ok |-> False, msg |-> "You can't open that.", flags |-> fl]
    ELSE IF ~is_openable(fl, c)
    THEN [ok |-> False, msg |-> "You can't open that.", flags |-> fl]
    ELSE IF is_locked(fl, c)
    THEN [ok |-> False, msg |-> "The {short_desc} is locked.",
          flags |-> [fl EXCEPT ![c] = @ \cup {OPENBIT}]]
    ELSE IF is_open(fl, c)
    THEN [ok |-> False, msg |-> "The {short_desc} is already open.", flags |-> fl]
    ELSE [ok |-> True, msg |-> "Opened.",
          flags |-> [fl EXCEPT ![c] = @ \cup {OPENBIT}]]

\* Container.open(): (success, message, flags after).
open(fl, c) ==
    IF is_surface[c]
    THEN [ok |-> False, msg |-> "You can't open that.", flags |-> fl]
    ELSE IF ~is_openable(fl, c)
    THEN [ok |-> False, msg |-> "You can't open that.", flags |-> fl]
    ELSE IF is_locked(fl, c)
    THEN [ok |-> False, msg |-> "The {short_desc} is locked.", flags |-> fl]
    ELSE IF is_open(fl, c)
    THEN [ok |-> False, msg |-> "The {short_desc} is already open.", flags |-> fl]
    ELSE [ok |-> True, msg |-> "Opened.",
          flags |-> [fl EXCEPT ![c] = @ \cup {OPENBIT}]]

\* close() that clears LOCKEDBIT together with OPENBIT.
CloseClearsLock(fl, c) ==
    IF is_surface[c]
    THEN [ok |-> False, msg |-> "You can't close that.", flags |-> fl]
    ELSE IF ~is_openable(fl, c)
    THEN [ok |-> False, msg |-> "You can't close that.", flags |-> fl]
    ELSE IF ~is_open(fl, c)
    THEN [ok |-> False, msg |-> "The {short_desc} is already closed.", flags |-> fl]
    ELSE [ok |-> True, msg |-> "Closed.",
          flags |-> [fl EXCEPT ![c] = @ \ {OPENBIT, LOCKEDBIT}]]

\* close() that assigns the cleared mask instead of masking the flags: every
\* flag of the container is lost with OPENBIT.
CloseResetsFlags(fl, c) ==
    IF is_surface[c]
    THEN [ok |-> False, msg |-> "You can't close that.", flags |-> fl]
    ELSE IF ~is_openable(fl, c)
    THEN [ok |-> False, msg |-> "You can't close that.", flags |-> fl]
    ELSE IF ~is_open(fl, c)
    THEN [ok |-> False, msg |-> "The {short_desc} is already closed.", flags |-> fl]
    ELSE [ok |-> True, msg |-> "Closed.", flags |-> [fl EXCEPT ![c] = {}]]

\* Container.close(): (success, message, flags after).
close(fl, c) ==
    IF is_surface[c]
    THEN [ok |-> False, msg |-> "You can't close that.", flags |-> fl]
    ELSE IF ~is_openable(fl, c)
    THEN [ok |-> False, msg |-> "You can't close that.", flags |-> fl]
    ELSE IF ~is_open(fl, c)
    THEN [ok |-> False, msg |-> "The {short_desc} is already closed.", flags |-> fl]
    ELSE [ok |-> True, msg |-> "Closed.",
          flags |-> [fl EXCEPT ![c] = @ \ {OPENBIT}]]

\* lock() that does not look at is_open: an open container is locked too.
LockWhileOpen(fl, c) ==
    IF is_surface[c]
    THEN [ok |-> False, msg |-> "You can't lock that.", flags |-> fl]
    ELSE IF is_locked(fl, c)
    THEN [ok |-> False, msg |-> "The {short_desc} is already locked.", flags |-> fl]
    ELSE [ok |-> True, msg |-> "Locked.",
          flags |-> [fl EXCEPT ![c] = @ \cup {LOCKEDBIT}]]

\* Container.lock(): (success, message, flags after).  OPENABLE is not looked at.
lock(fl, c) ==
    IF is_surface[c]
    THEN [ok |-> False, msg |-> "You can't lock that.", flags |-> fl]
    ELSE IF ~is_open(fl, c)
    THEN \* Must be closed to lock
         IF is_locked(fl, c)
         THEN [ok |-> False, msg |-> "The {short_desc} is already locked.",
               flags |-> fl]
         ELSE [ok |-> True, msg |-> "Locked.",
               flags |-> [fl EXCEPT ![c] = @ \cup {LOCKEDBIT}]]
    ELSE [ok |-> False, msg |-> "The {short_desc} must be closed first.",
          flags |-> fl]

\* unlock() without the surface test.
UnlockSurfaceToo(fl, c) ==
    IF ~is_locked(fl, c)
    THEN [ok |-> False, msg |-> "The {short_desc} isn't locked.", flags |-> fl]
    ELSE [ok |-> True, msg |-> "Unlocked.",
          flags |-> [fl EXCEPT ![c] = @ \ {LOCKEDBIT}]]

\* Container.unlock(): (success, message, flags after).  Neither OPENABLE nor
\* is_open is looked at.
unlock(fl, c) ==
    IF is_surface[c]
    THEN [ok |-> False, msg |-> "You can't unlock that.", flags |-> fl]
    ELSE IF ~is_locked(fl, c)
    THEN [ok |-> False, msg |-> "The {short_desc} isn't locked.", flags |-> fl]
    ELSE [ok |-> True, msg |-> "Unlocked.",
          flags |-> [fl EXCEPT ![c] = @ \ {LOCKEDBIT}]]

\* get_visible_contents() that does not look at the container: the contents of a
\* closed, opaque box are listed too.
VisibleContentsOfClosed(con, fl, c) ==
    SelectSeq(con[c], LAMBDA obj : ~has_flag(fl, obj, INVISIBLE))

\* Container.get_visible_contents(): the list returned.
get_visible_contents(con, fl, c) ==
    IF is_open(fl, c) \/ is_transparent(fl, c) \/ is_surface[c]
    THEN SelectSeq(con[c], LAMBDA obj : ~has_flag(fl, obj, INVISIBLE))
    ELSE <<>>

----------------------------------------------------------------------------
(* Weights (objects/item.py, objects/container.py).                        *)

\* hasattr(obj, 'get_weight'): Item and its subclass Container define it.
has_get_weight(e) == kind[e] \in {"Item", "Container"}

\* hasattr(obj, 'size'): Item.__init__ sets it; GameObject, Room and Actor have
\* no such attribute.
has_size(e) == kind[e] \in {"Item", "Container"}

\* The size each Item was built with: the coin weighs 1, the containers have the
\* default size.
size == [e \in {x \in Entities : has_size(x)} |-> IF e = "coin" THEN 1 ELSE 5]

\* The capacity each Container was built with: 10 for the box, the default for
\* the table.
capacity == [c \in Containers |-> IF c = "box" THEN 10 ELSE 100]

\* The weight can_hold gives an object without get_weight and without size.
DefaultSize == 5

\* Item.get_weight() of e, with active the objects whose get_weight() is being
\* computed: [raised, total].  Meeting one of them again is a recursion without
\* end, which Python ends with RecursionError.
RECURSIVE GetWeightFrom(_, _, _)
RECURSIVE ContentsWeightFrom(_, _, _, _, _)
GetWeightFrom(con, e, active) ==
    IF e \in active THEN [raised |-> TRUE, total |-> 0]
    ELSE ContentsWeightFrom(con, con[e], 1, size[e], active \cup {e})

\* The loop of get_weight over the contents list s from index i on, with total
\* the sum so far: an object without get_weight and without size adds nothing.
ContentsWeightFrom(con, s, i, total, active) ==
    IF i > Len(s) THEN [raised |-> FALSE, total |-> total]
    ELSE IF has_get_weight(s[i])
    THEN LET w == GetWeightFrom(con, s[i], active)
         IN  IF w.raised THEN w
             ELSE ContentsWeightFrom(con, s, i + 1, total + w.total, active)
    ELSE IF has_size(s[i])
    THEN ContentsWeightFrom(con, s, i + 1, total + size[s[i]], active)
    ELSE ContentsWeightFrom(con, s, i + 1, total, active)

\* Item.get_weight(): [raised, total].
get_weight(con, e) == GetWeightFrom(con, e, {})

\* o.get_weight() if hasattr(o, 'get_weight') else getattr(o, 'size', 5).
WeightOrSize(con, o) ==
    IF has_get_weight(o) THEN get_weight(con, o)
    ELSE IF has_size(o) THEN [raised |-> FALSE, total |-> size[o]]
    ELSE [raised |-> FALSE, total |-> DefaultSize]

\* sum(... for o in s) of can_hold, from index i on.
RECURSIVE SumWeights(_, _, _, _)
SumWeights(con, s, i, total) ==
    IF i > Len(s) THEN [raised |-> FALSE, total |-> total]
    ELSE LET w == WeightOrSize(con, s[i])
         IN  IF w.raised THEN w
             ELSE SumWeights(con, s, i + 1, total + w.total)

\* Container.can_hold(obj): True, False, or Raises.
can_hold(con, c, obj) ==
    LET current_weight == SumWeights(con, con[c], 1, 0)
    IN  IF current_weight.raised THEN Raises
        ELSE LET obj_weight == WeightOrSize(con, obj)
             IN  IF obj_weight.raised THEN Raises
                 ELSE IF current_weight.total + obj_weight.total <= capacity[c]
                 THEN True
                 ELSE False

----------------------------------------------------------------------------
(* The accessibility resolver (objects/base.py).                           *)

\* The loop of _containers_accessible from container on.
RECURSIVE ContainersAccessibleFrom(_, _, _, _)
ContainersAccessibleFrom(loc, fl, container, seen) ==
    IF container = None THEN True
    ELSE IF ~(has_flag(fl, container, OPENBIT) \/ has_flag(fl, container, TRANSBIT))
    THEN False
    ELSE IF container \in seen THEN Diverges
    ELSE ContainersAccessibleFrom(loc, fl, loc[container], seen \cup {container})

\* GameObject._containers_accessible(): every object on the parent chain, up to
\* the root, carries OPENBIT or TRANSBIT.
containers_accessible(loc, fl, e) == ContainersAccessibleFrom(loc, fl, loc[e], {})

\* The third step of is_accessible_to with the container check left out: reaching
\* the actor or the room is enough.
RECURSIVE AccessibleWalkUnchecked(_, _, _, _, _, _, _)
AccessibleWalkUnchecked(loc, fl, e, actor, actor_room, container, seen) ==
    IF container = None THEN False
    ELSE IF container = actor \/ container = actor_room THEN True
    ELSE IF container \in seen THEN Diverges
    ELSE AccessibleWalkUnchecked(loc, fl, e, actor, actor_room, loc[container],
                                 seen \cup {container})

\* The third step of is_accessible_to: the loop up the parent chain of e from
\* container on, until the actor or the actor's room is met.
RECURSIVE AccessibleWalk(_, _, _, _, _, _, _)
AccessibleWalk(loc, fl, e, actor, actor_room, container, seen) ==
    IF container = None THEN False
    ELSE IF container = actor \/ container = actor_room
    THEN containers_accessible(loc, fl, e)
    ELSE IF container \in seen THEN Diverges
    ELSE AccessibleWalk(loc, fl, e, actor, actor_room, loc[container],
                        seen \cup {container})

\* is_accessible_to with the inventory test dropped: a held object goes through
\* the room test and the container walk like any other.
IsAccessibleNoInventory(loc, fl, e, actor) ==
    LET actor_room == get_room(loc, actor)
    IN  IF actor_room = Diverges THEN Diverges
        ELSE IF actor_room # None /\ is_in(loc, e, actor_room) THEN True
        ELSE AccessibleWalk(loc, fl, e, actor, actor_room, loc[e], {})

\* GameObject.is_accessible_to(actor): TRUE, FALSE, or Diverges when one of its
\* loops never ends.
is_accessible_to(loc, fl, e, actor) ==
    \* In actor's inventory
    IF is_in(loc, e, actor) THEN True
    ELSE LET actor_room == get_room(loc, actor)
         IN  IF actor_room = Diverges THEN Diverges
             \* In same room
             ELSE IF actor_room # None /\ is_in(loc, e, actor_room) THEN True
             \* In a container in the room or inventory
             ELSE AccessibleWalk(loc, fl, e, actor, actor_room, loc[e], {})

----------------------------------------------------------------------------
(* Health and combat (objects/actor.py).                                   *)

\* The actors that fight: the actor of the world above and a troll.
Fighters == {"actor", "troll"}

\* The health each actor is built with (the constructor's default), which is
\* its max_health from then on.
DefaultHealth == 10
max_health == [f \in Fighters |-> DefaultHealth]

\* The strength each actor is built with (the constructor's default).
strength == [f \in Fighters |-> 1]

\* GameObject.properties: the coin was built with a damage of 2.
properties == [e \in Entities |-> IF e = "coin" THEN {<<"damage", 2>>} ELSE {}]

\* GameObject.get_property(name, default).
get_property(e, name, default) ==
    IF \E p \in properties[e] : p[1] = name
    THEN (CHOOSE p \in properties[e] : p[1] = name)[2]
    ELSE default

\* min(a, b)
Min(a, b) == IF a <= b THEN a ELSE b

\* Actor.is_alive.
is_alive(h, dead, f) == ~dead[f] /\ h[f] > 0

\* take_damage() without the test of is_dead: the dead are damaged again.
TakeDamageWhenDead(h, dead, f, amount) ==
    LET actual_damage == Min(amount, h[f])
        h1 == [h EXCEPT ![f] = @ - actual_damage]
    IN  IF h1[f] <= 0
        THEN [actual |-> actual_damage, died |-> True,
              health |-> [h1 EXCEPT ![f] = 0],
              is_dead |-> [dead EXCEPT ![f] = TRUE]]
        ELSE [actual |-> actual_damage, died |-> False,
              health |-> h1, is_dead |-> dead]

\* take_damage() that reports the amount asked for instead of the damage applied.
TakeDamageUnclamped(h, dead, f, amount) ==
    IF dead[f]
    THEN [actual |-> 0, died |-> True, health |-> h, is_dead |-> dead]
    ELSE LET h1 == [h EXCEPT ![f] = @ - amount]
         IN  IF h1[f] <= 0
             THEN [actual |-> amount, died |-> True,
                   health |-> [h1 EXCEPT ![f] = 0],
                   is_dead |-> [dead EXCEPT ![f] = TRUE]]
             ELSE [actual |-> amount, died |-> False,
                   health |-> h1, is_dead |-> dead]

\* Actor.take_damage(amount): (actual damage, died) and the fields after.
take_damage(h, dead, f, amount) ==
    IF dead[f]
    THEN [actual |-> 0, died |-> True, health |-> h, is_dead |-> dead]
    ELSE LET actual_damage == Min(amount, h[f])
             h1 == [h EXCEPT ![f] = @ - actual_damage]
         IN  IF h1[f] <= 0
             THEN [actual |-> actual_damage, died |-> True,
                   health |-> [h1 EXCEPT ![f] = 0],
                   is_dead |-> [dead EXCEPT ![f] = TRUE]]
             ELSE [actual |-> actual_damage, died |-> False,
                   health |-> h1, is_dead |-> dead]

\* Actor.heal(amount): the amount healed and the health after.
heal(h, dead, f, amount) ==
    IF dead[f]
    THEN [healed |-> 0, health |-> h]
    ELSE LET old_health == h[f]
             h1 == [h EXCEPT ![f] = Min(@ + amount, max_health[f])]
         IN  [healed |-> h1[f] - old_health, health |-> h1]

\* base_damage of attack: the strength, plus the weapon's damage property (1
\* when it has none) if a weapon is given and carries WEAPONBIT.
base_damage(fl, attacker, weapon) ==
    strength[attacker]
        + (IF weapon # None /\ has_flag(fl, weapon, WEAPONBIT)
           THEN get_property(weapon, "damage", 1)
           ELSE 0)

\* randint(0, base_damage * 2): the draw may fall below half the base.
DamageDrawsFromZero(base) == 0..(base * 2)

\* The values random.randint(base_damage // 2, base_damage * 2) can return.
DamageDraws(base) == (base \div 2)..(base * 2)

\* The message of attack after take_damage returned (actual, died).
AttackMessage(actual, died) ==
    IF died = True THEN "The {short_desc} is killed!"
    ELSE IF actual > 0 THEN "The {short_desc} takes {actual_damage} damage."
    ELSE "The attack misses!"

\* attack() without the test of the attacker: the dead strike too.
AttackByTheDead(h, dead, fl, attacker, target, weapon, damage) ==
    IF ~is_alive(h, dead, target)
    THEN [hit |-> False, damage |-> 0,
          msg |-> "The {short_desc} is already dead.",
          health |-> h, is_dead |-> dead]
    ELSE LET r == take_damage(h, dead, target, damage)
         IN  [hit |-> IF r.actual > 0 THEN True ELSE False, damage |-> r.actual,
              msg |-> AttackMessage(r.actual, r.died),
              health |-> r.health, is_dead |-> r.is_dead]

\* Actor.attack(target, weapon) when random.randint returns damage:
\* (hit, damage, message) and the fields after.
attack(h, dead, fl, attacker, target, weapon, damage) ==
    IF ~is_alive(h, dead, attacker)
    THEN [hit |-> False, damage |-> 0,
          msg |-> "You are dead and cannot attack.",
          health |-> h, is_dead |-> dead]
    ELSE IF ~is_alive(h, dead, target)
    THEN [hit |-> False, damage |-> 0,
          msg |-> "The {short_desc} is already dead.",
          health |-> h, is_dead |-> dead]
    ELSE LET r == take_damage(h, dead, target, damage)
         IN  [hit |-> IF r.actual > 0 THEN True ELSE False, damage |-> r.actual,
              msg |-> AttackMessage(r.actual, r.died),
              health |-> r.health, is_dead |-> r.is_dead]

\* The calls followed are those that leave the health within HealthCap of zero.
HealthCap == 16
HealthRange == (0 - HealthCap)..HealthCap

\* The actors after construction: health at max_health, is_dead False.
InitActors ==
    /\ health = [f \in Fighters |-> max_health[f]]
    /\ is_dead = [f \in Fighters |-> FALSE]

----------------------------------------------------------------------------
(* The light and the description of a room.                                *)

\* The texts the objects are built with: short_desc is the name; a room has a
\* long_desc; Item, Container and Actor have fdesc and ldesc, "" unless given.
short_desc == [e \in Entities |-> e]

long_desc == [r \in Rooms |-> "long description"]

fdesc == [e \in Entities \ Rooms |->
             CASE e = "coin" -> "first coin"
               [] e = "actor" -> "first actor"
               [] OTHER -> ""]

ldesc == [e \in Entities \ Rooms |->
             CASE e = "coin" -> "later coin"
               [] e = "table" -> "later table"
               [] OTHER -> ""]

\* hasattr(obj, 'fdesc') and hasattr(obj, 'ldesc'): the attributes Item,
\* Container and Actor set in their constructors and Room does not.
has_fdesc(e) == kind[e] # "Room"
has_ldesc(e) == kind[e] # "Room"

\* The line of an object that has neither attribute.
PresenceLine(e) == "There is " \o short_desc[e] \o " here."

\* The levels a room's light_level is set to.
MaxLight == 1
LightLevels == 0..MaxLight

\* r.is_lit()
is_lit(con, fl, ll, r) ==
    IF ll[r] > 0
    THEN TRUE
    ELSE \E i \in 1..Len(con[r]) :
             has_flag(fl, con[r][i], LIGHTBIT) /\ has_flag(fl, con[r][i], ONBIT)

\* The list visible_objects of describe: obj.has_flag(obj.flags & (1 << 0)) is
\* bool(obj.flags & 1), the test of the flag of value 1.
visible_objects(con, fl, r) ==
    SelectSeq(con[r], LAMBDA obj : ~has_flag(fl, obj, INVISIBLE))

RECURSIVE DescribeKeepsUnseen(_, _, _, _)
\* The loop of describe without the assignment obj.seen = True.
DescribeKeepsUnseen(objs, i, sn, parts) ==
    IF i > Len(objs)
    THEN [parts |-> parts, seen |-> sn]
    ELSE LET obj == objs[i]
         IN  IF has_fdesc(obj) /\ ~sn[obj]
             THEN DescribeKeepsUnseen(objs, i + 1, sn, Append(parts, fdesc[obj]))
             ELSE IF has_ldesc(obj)
             THEN DescribeKeepsUnseen(objs, i + 1, sn, Append(parts, ldesc[obj]))
             ELSE DescribeKeepsUnseen(objs, i + 1, sn,
                                      Append(parts, PresenceLine(obj)))

RECURSIVE DescribeObjects(_, _, _, _)
\* The loop of describe over visible_objects from index i on, with the seen
\* marks sn and the parts collected so far.
DescribeObjects(objs, i, sn, parts) ==
    IF i > Len(objs)
    THEN [parts |-> parts, seen |-> sn]
    ELSE LET obj == objs[i]
         IN  IF has_fdesc(obj) /\ ~sn[obj]
             THEN DescribeObjects(objs, i + 1, [sn EXCEPT ![obj] = TRUE],
                                  Append(parts, fdesc[obj]))
             ELSE IF has_ldesc(obj)
             THEN DescribeObjects(objs, i + 1, sn, Append(parts, ldesc[obj]))
             ELSE DescribeObjects(objs, i + 1, sn,
                                  Append(parts, PresenceLine(obj)))

\* r.describe(verbose): the list parts that the result joins with newlines,
\* and the seen marks after the call.
describe(con, fl, vis, sn, r, verbose) ==
    LET head == <<short_desc[r], "">>
                    \o (IF verbose \/ ~vis[r] THEN <<long_desc[r]>> ELSE <<>>)
        objs == visible_objects(con, fl, r)
    IN  IF objs # <<>>
        THEN DescribeObjects(objs, 1, sn, Append(head, ""))
        ELSE [parts |-> head, seen |-> sn]

\* on_enter() that marks the room visited before it asks the room_action.
OnEnterVisitsFirst(vis, r, handled) ==
    [result |-> IF handled THEN "HANDLED" ELSE "NOT_HANDLED",
     visited |-> [vis EXCEPT ![r] = TRUE]]

\* r.on_enter(actor), where handled tells whether the room has a room_action
\* that returns a true value.
on_enter(vis, r, handled) ==
    IF handled
    THEN [result |-> "HANDLED", visited |-> vis]
    ELSE [result |-> "NOT_HANDLED", visited |-> [vis EXCEPT ![r] = TRUE]]

\* The rooms and the seen marks after construction: light_level 1, visited
\* False, seen False, and nothing described yet.
InitRooms ==
    /\ light_level = [r \in Rooms |-> 1]
    /\ visited = [r \in Rooms |-> FALSE]
    /\ obj_seen = [e \in Entities |-> FALSE]
    /\ output = <<>>

----------------------------------------------------------------------------
(* move_to called by two threads: the statements of GameObject.move_to,    *)
(* each a step that another thread's steps may come between.               *)

\* The threads, and the position of a thread: outside move_to ("idle"), at one
\* of its statements, returned ("done"), or ended by an exception ("raised").
Threads == {"t1", "t2"}

Idle == [at |-> "idle", obj |-> None, target |-> None]

\* Before any call.
InitThreads == pc = [t \in Threads |-> Idle]

\* Thread t is at statement s of e.move_to(P).
At(t, s, e, P) == [pc EXCEPT ![t] = [at |-> s, obj |-> e, target |-> P]]

\* if self._location is not None:
TestOld(loc, con, e) ==
    [at |-> IF loc[e] # None THEN "test_in" ELSE "assign",
     location |-> loc, contents |-> con]

\* if self in self._location.contents: the location is read again, and None
\* has no contents.
TestIn(loc, con, e) ==
    [at |-> IF loc[e] = None THEN "raised"
            ELSE IF InSeq(e, con[loc[e]]) THEN "remove"
            ELSE "assign",
     location |-> loc, contents |-> con]

\* self._location.contents.remove(self): the location is read again, and
\* list.remove raises ValueError when the object is not in the list.
RemoveOld(loc, con, e) ==
    IF loc[e] = None \/ ~InSeq(e, con[loc[e]])
    THEN [at |-> "raised", location |-> loc, contents |-> con]
    ELSE [at |-> "assign", location |-> loc,
          contents |-> [con EXCEPT ![loc[e]] = Remove(@, e)]]

\* self._location = new_location, and if new_location is not None:
AssignNew(loc, con, e, P) ==
    [at |-> IF P # None THEN "test_new" ELSE "done",
     location |-> [loc EXCEPT ![e] = P], contents |-> con]

\* if self not in new_location.contents:
TestNew(loc, con, e, P) ==
    [at |-> IF ~InSeq(e, con[P]) THEN "append" ELSE "done",
     location |-> loc, contents |-> con]

\* new_location.contents.append(self)
AppendNew(loc, con, e, P) ==
    [at |-> "done", location |-> loc,
     contents |-> [con EXCEPT ![P] = Append(@, e)]]

\* The statement of e.move_to(P) at position s.
MoveToStatement(loc, con, s, e, P) ==
    CASE s = "test_old" -> TestOld(loc, con, e)
      [] s = "test_in" -> TestIn(loc, con, e)
      [] s = "remove" -> RemoveOld(loc, con, e)
      [] s = "assign" -> AssignNew(loc, con, e, P)
      [] s = "test_new" -> TestNew(loc, con, e, P)
      [] s = "append" -> AppendNew(loc, con, e, P)

----------------------------------------------------------------------------
(* The program as a state machine.                                         *)

\* The record of the last call: its name, receiver, argument, returned value and
\* the receiver's location before it (for a call on an actor's health: the
\* health before it); amount is the number a call was given, 0 if none, and
\* weapon the weapon an attack was made with.
Call(op, obj, target, ok, prev) ==
    [op |-> op, obj |-> obj, target |-> target, ok |-> ok, prev |-> prev,
     amount |-> 0, weapon |-> None]

\* The record of a call given a number instead of an object.
CallAmount(op, obj, amount, ok, prev) ==
    [op |-> op, obj |-> obj, target |-> None, ok |-> ok, prev |-> prev,
     amount |-> amount, weapon |-> None]

\* The record of attacker.attack(target, weapon); prev is the target's health
\* before it.
CallAttack(attacker, target, weapon, hit, prev) ==
    [op |-> "attack", obj |-> attacker, target |-> target, ok |-> hit,
     prev |-> prev, amount |-> 0, weapon |-> weapon]

\* The constructor flags of each object: Container.__init__ adds CONTBIT (and
\* SURFACEBIT for a surface), Actor.__init__ adds ACTORBIT; the box is built
\* openable and closed, transparent or not.
InitFlags(boxTransparent) ==
    [e \in Entities |->
        CASE e = "R" -> {}
          [] e = "table" -> {CONTBIT, SURFACEBIT}
          [] e = "box" -> {CONTBIT, OPENABLE} \cup (IF boxTransparent THEN {TRANSBIT} ELSE {})
          [] e = "coin" -> {}
          [] e = "actor" -> {ACTORBIT}]

\* The world after construction: room R, then table, box and actor built with
\* location R, and coin built with location box; each constructor ends in move_to.
Init ==
    /\ location = [e \in Entities |->
                      CASE e = "R" -> None
                        [] e = "coin" -> "box"
                        [] OTHER -> "R"]
    /\ contents = [e \in Entities |->
                      CASE e = "R" -> <<"table", "box", "actor">>
                        [] e = "box" -> <<"coin">>
                        [] OTHER -> <<>>]
    /\ \E t \in BOOLEAN : flags = InitFlags(t)
    /\ last = Call("init", None, None, True, None)
    /\ InitActors
    /\ InitRooms
    /\ InitThreads

\* Single-threaded execution: a call that never returns is the last one.
Running == last.ok # Diverges

\* e.move_to(P)
MoveToAct(e, P) ==
    /\ Running
    /\ UNCHANGED pc
    /\ LET m == MoveTo(location, contents, e, P)
       IN  /\ location' = m.location
           /\ contents' = m.contents
    /\ last' = Call("move_to", e, P, True, location[e])
    /\ UNCHANGED flags
    /\ UNCHANGED actorVars
    /\ UNCHANGED roomVars

\* a.give_item(item)
GiveItemAct(a, item) ==
    /\ Running
    /\ UNCHANGED pc
    /\ LET r == give_item(location, contents, a, item)
       IN  /\ location' = r.location
           /\ contents' = r.contents
           /\ last' = Call("give_item", item, a, r.ok, location[item])
    /\ UNCHANGED flags
    /\ UNCHANGED actorVars
    /\ UNCHANGED roomVars

\* a.drop_item(item)
DropItemAct(a, item) ==
    /\ Running
    /\ UNCHANGED pc
    /\ LET r == drop_item(location, contents, a, item)
       IN  /\ location' = r.location
           /\ contents' = r.contents
           /\ last' = Call("drop_item", item, a, r.ok, location[item])
    /\ UNCHANGED flags
    /\ UNCHANGED actorVars
    /\ UNCHANGED roomVars

\* c.open()
OpenAct(c) ==
    /\ Running
    /\ UNCHANGED pc
    /\ LET r == open(flags, c)
       IN  /\ flags' = r.flags
           /\ last' = Call("open", c, None, r.ok, location[c])
    /\ UNCHANGED <<location, contents>>
    /\ UNCHANGED actorVars
    /\ UNCHANGED roomVars

\* c.close()
CloseAct(c) ==
    /\ Running
    /\ UNCHANGED pc
    /\ LET r == close(flags, c)
       IN  /\ flags' = r.flags
           /\ last' = Call("close", c, None, r.ok, location[c])
    /\ UNCHANGED <<location, contents>>
    /\ UNCHANGED actorVars
    /\ UNCHANGED roomVars

\* c.lock()
LockAct(c) ==
    /\ Running
    /\ UNCHANGED pc
    /\ LET r == lock(flags, c)
       IN  /\ flags' = r.flags
           /\ last' = Call("lock", c, None, r.ok, location[c])
    /\ UNCHANGED <<location, contents>>
    /\ UNCHANGED actorVars
    /\ UNCHANGED roomVars

\* c.unlock()
UnlockAct(c) ==
    /\ Running
    /\ UNCHANGED pc
    /\ LET r == unlock(flags, c)
       IN  /\ flags' = r.flags
           /\ last' = Call("unlock", c, None, r.ok, location[c])
    /\ UNCHANGED <<location, contents>>
    /\ UNCHANGED actorVars
    /\ UNCHANGED roomVars

\* e.set_flag(bit)
SetFlagAct(e, bit) ==
    /\ Running
    /\ UNCHANGED pc
    /\ flags' = set_flag(flags, e, bit)
    /\ last' = Call("set_flag", e, None, None, location[e])
    /\ UNCHANGED <<location, contents>>
    /\ UNCHANGED actorVars
    /\ UNCHANGED roomVars

\* e.clear_flag(bit)
ClearFlagAct(e, bit) ==
    /\ Running
    /\ UNCHANGED pc
    /\ flags' = clear_flag(flags, e, bit)
    /\ last' = Call("clear_flag", e, None, None, location[e])
    /\ UNCHANGED <<location, contents>>
    /\ UNCHANGED actorVars
    /\ UNCHANGED roomVars

\* c.get_visible_contents(): a query; the list it returns is
\* get_visible_contents of the state, which the call leaves as it is.
GetVisibleContentsAct(c) ==
    /\ Running
    /\ UNCHANGED pc
    /\ last' = Call("get_visible_contents", c, None, Returned, location[c])
    /\ UNCHANGED <<location, contents, flags>>
    /\ UNCHANGED actorVars
    /\ UNCHANGED roomVars

\* c.can_hold(obj)
CanHoldAct(c, obj) ==
    /\ Running
    /\ UNCHANGED pc
    /\ last' = Call("can_hold", c, obj, can_hold(contents, c, obj), location[c])
    /\ UNCHANGED <<location, contents, flags>>
    /\ UNCHANGED actorVars
    /\ UNCHANGED roomVars

\* f.take_damage(amount)
TakeDamageAct(f, amount) ==
    /\ Running
    /\ UNCHANGED pc
    /\ LET r == take_damage(health, is_dead, f, amount)
       IN  /\ r.health[f] \in HealthRange
           /\ health' = r.health
           /\ is_dead' = r.is_dead
           /\ last' = CallAmount("take_damage", f, amount, r.died, health[f])
    /\ UNCHANGED <<location, contents, flags>>
    /\ UNCHANGED roomVars

\* f.heal(amount)
HealAct(f, amount) ==
    /\ Running
    /\ UNCHANGED pc
    /\ LET r == heal(health, is_dead, f, amount)
       IN  /\ r.health[f] \in HealthRange
           /\ health' = r.health
           /\ last' = CallAmount("heal", f, amount, Returned, health[f])
    /\ UNCHANGED <<location, contents, flags, is_dead>>
    /\ UNCHANGED roomVars

\* attacker.attack(target, weapon), with any value random.randint can return.
AttackAct(attacker, target, weapon) ==
    /\ Running
    /\ UNCHANGED pc
    /\ \E damage \in DamageDraws(base_damage(flags, attacker, weapon)) :
           LET r == attack(health, is_dead, flags, attacker, target, weapon, damage)
           IN  /\ health' = r.health
               /\ is_dead' = r.is_dead
               /\ last' = CallAttack(attacker, target, weapon, r.hit, health[target])
    /\ UNCHANGED <<location, contents, flags>>
    /\ UNCHANGED roomVars

\* e.is_accessible_to(a)
IsAccessibleAct(e, a) ==
    /\ Running
    /\ UNCHANGED pc
    /\ last' = Call("is_accessible_to", e, a,
                    is_accessible_to(location, flags, e, a), location[e])
    /\ UNCHANGED <<location, contents, flags>>
    /\ UNCHANGED actorVars
    /\ UNCHANGED roomVars

\* r.light_level = level, as a world builder sets it.
SetLightLevelAct(r, level) ==
    /\ Running
    /\ UNCHANGED pc
    /\ light_level' = [light_level EXCEPT ![r] = level]
    /\ last' = Call("light_level", r, None, None, location[r])
    /\ UNCHANGED <<location, contents, flags, visited, obj_seen, output>>
    /\ UNCHANGED actorVars

\* r.is_lit()
IsLitAct(r) ==
    /\ Running
    /\ UNCHANGED pc
    /\ last' = Call("is_lit", r, None,
                    IF is_lit(contents, flags, light_level, r) THEN True ELSE False,
                    location[r])
    /\ UNCHANGED <<location, contents, flags>>
    /\ UNCHANGED actorVars
    /\ UNCHANGED roomVars

\* r.describe(verbose); the call record holds verbose as its argument.
DescribeAct(r, verbose) ==
    /\ Running
    /\ UNCHANGED pc
    /\ LET d == describe(contents, flags, visited, obj_seen, r, verbose)
       IN  /\ output' = d.parts
           /\ obj_seen' = d.seen
    /\ last' = Call("describe", r, IF verbose THEN True ELSE False, Returned,
                    location[r])
    /\ UNCHANGED <<location, contents, flags, light_level, visited>>
    /\ UNCHANGED actorVars

\* r.on_enter(a)
OnEnterAct(r, a) ==
    /\ Running
    /\ UNCHANGED pc
    /\ \E handled \in BOOLEAN :
           LET e == on_enter(visited, r, handled)
           IN  /\ visited' = e.visited
               /\ last' = Call("on_enter", r, a, e.result, location[r])
    /\ UNCHANGED <<location, contents, flags, light_level, obj_seen, output>>
    /\ UNCHANGED actorVars

\* e.get_room(): the room, None, or Diverges when the loop never ends.
GetRoomAct(e) ==
    /\ Running
    /\ UNCHANGED pc
    /\ last' = Call("get_room", e, None, get_room(location, e), location[e])
    /\ UNCHANGED <<location, contents, flags>>
    /\ UNCHANGED actorVars
    /\ UNCHANGED roomVars

\* e.is_in(c)
IsInAct(e, c) ==
    /\ Running
    /\ UNCHANGED pc
    /\ last' = Call("is_in", e, c,
                    IF is_in(location, e, c) THEN True ELSE False, location[e])
    /\ UNCHANGED <<location, contents, flags>>
    /\ UNCHANGED actorVars
    /\ UNCHANGED roomVars

\* e.get_weight(): a query; the number it returns is get_weight of the state,
\* unless the recursion raises.
GetWeightAct(e) ==
    /\ Running
    /\ UNCHANGED pc
    /\ last' = Call("get_weight", e, None,
                    IF get_weight(contents, e).raised THEN Raises ELSE Returned,
                    location[e])
    /\ UNCHANGED <<location, contents, flags>>
    /\ UNCHANGED actorVars
    /\ UNCHANGED roomVars

\* r.on_look(), where handled tells whether the room has a room_action that
\* returns a true value.
on_look(handled) == IF handled THEN "HANDLED" ELSE "NOT_HANDLED"

OnLookAct(r) ==
    /\ Running
    /\ UNCHANGED pc
    /\ \E handled \in BOOLEAN :
           last' = Call("on_look", r, None, on_look(handled), location[r])
    /\ UNCHANGED <<location, contents, flags>>
    /\ UNCHANGED actorVars
    /\ UNCHANGED roomVars

\* Thread t calls e.move_to(P).
StartMoveToAct(t, e, P) ==
    /\ pc[t].at = "idle"
    /\ pc' = At(t, "test_old", e, P)
    /\ UNCHANGED <<location, contents, flags, last>>
    /\ UNCHANGED actorVars
    /\ UNCHANGED roomVars

\* Thread t executes the statement of move_to it is at.
MoveToStepAct(t) ==
    /\ pc[t].at \notin {"idle", "done", "raised"}
    /\ LET r == MoveToStatement(location, contents, pc[t].at,
                                pc[t].obj, pc[t].target)
       IN  /\ location' = r.location
           /\ contents' = r.contents
           /\ pc' = At(t, r.at, pc[t].obj, pc[t].target)
    /\ UNCHANGED <<flags, last>>
    /\ UNCHANGED actorVars
    /\ UNCHANGED roomVars

\* The objects the containment operations are applied to; the table stays where
\* it was built.
GraphObjects == Entities \ {"table"}

\* The containment graph under move_to, give_item and drop_item.
Next ==
    \/ \E e \in GraphObjects, P \in GraphObjects \cup {None} : MoveToAct(e, P)
    \/ \E a \in Actors, item \in GraphObjects : GiveItemAct(a, item)
    \/ \E a \in Actors, item \in GraphObjects : DropItemAct(a, item)

Spec == Init /\ [][Next]_vars

\* The objects moved about under the accessibility resolver; the room stays the
\* root it was built as.
AccessMovers == Entities \ Rooms

\* The accessibility resolver over the worlds that move_to, open and close build.
NextAccess ==
    \/ \E e \in AccessMovers, P \in Entities \cup {None} : MoveToAct(e, P)
    \/ \E c \in Containers : OpenAct(c)
    \/ \E c \in Containers : CloseAct(c)
    \/ \E e \in Entities, a \in Actors : IsAccessibleAct(e, a)

SpecAccess == Init /\ [][NextAccess]_vars

\* The flags a builder may pass to the constructor of a non-surface container,
\* and to that of a surface.
BoxFlagChoices == SUBSET {OPENABLE, OPENBIT, LOCKEDBIT}
TableFlagChoices == SUBSET {OPENABLE, LOCKEDBIT}

\* The constructor flags when the builder passes boxFlags and tableFlags.
ContainerFlags(boxFlags, tableFlags) ==
    [e \in Entities |->
        CASE e = "R" -> {}
          [] e = "table" -> {CONTBIT, SURFACEBIT} \cup tableFlags
          [] e = "box" -> {CONTBIT} \cup boxFlags
          [] e = "coin" -> {}
          [] e = "actor" -> {ACTORBIT}]

\* The world of Init, with the containers built in any of their states.
InitContainer ==
    /\ location = [e \in Entities |->
                      CASE e = "R" -> None
                        [] e = "coin" -> "box"
                        [] OTHER -> "R"]
    /\ contents = [e \in Entities |->
                      CASE e = "R" -> <<"table", "box", "actor">>
                        [] e = "box" -> <<"coin">>
                        [] OTHER -> <<>>]
    /\ \E b \in BoxFlagChoices, t \in TableFlagChoices :
           flags = ContainerFlags(b, t)
    /\ last = Call("init", None, None, True, None)
    /\ InitActors
    /\ InitRooms
    /\ InitThreads

\* The container state machine: open, close, lock and unlock on every container.
NextContainer ==
    \/ \E c \in Containers : OpenAct(c)
    \/ \E c \in Containers : CloseAct(c)
    \/ \E c \in Containers : LockAct(c)
    \/ \E c \in Containers : UnlockAct(c)

SpecContainer == InitContainer /\ [][NextContainer]_vars

\* The objects moved in and out of the containers, and the objects hidden and
\* shown with INVISIBLE.
ContentsMovers == {"coin", "actor", "box"}
Hideable == {"coin", "actor"}

\* What the containers show and what they can hold, over the worlds that
\* move_to, open, close and the INVISIBLE flag build from Init.
NextContents ==
    \/ \E e \in ContentsMovers, P \in (Entities \ {"coin"}) \cup {None} :
           MoveToAct(e, P)
    \/ \E c \in Containers : OpenAct(c)
    \/ \E c \in Containers : CloseAct(c)
    \/ \E e \in Hideable : SetFlagAct(e, INVISIBLE)
    \/ \E e \in Hideable : ClearFlagAct(e, INVISIBLE)
    \/ \E c \in Containers : GetVisibleContentsAct(c)
    \/ \E c \in Containers, obj \in Entities : CanHoldAct(c, obj)

SpecContents == Init /\ [][NextContents]_vars

\* The amounts take_damage and heal are called with: nothing, a little, more
\* than any health, and the same below zero.
SmallAmount == 5
MaxAmount == 15
Amounts == {0 - MaxAmount, 0 - SmallAmount, 0 - 1, 0, 1, SmallAmount, MaxAmount}

\* What an attack is made with: nothing, or the coin.
Weapons == {None, "coin"}

\* The world of Init with the coin built as a weapon or not.
InitCombat ==
    /\ location = [e \in Entities |->
                      CASE e = "R" -> None
                        [] e = "coin" -> "box"
                        [] OTHER -> "R"]
    /\ contents = [e \in Entities |->
                      CASE e = "R" -> <<"table", "box", "actor">>
                        [] e = "box" -> <<"coin">>
                        [] OTHER -> <<>>]
    /\ \E w \in BOOLEAN :
           flags = [InitFlags(FALSE) EXCEPT
                       !["coin"] = IF w THEN {WEAPONBIT} ELSE {}]
    /\ last = Call("init", None, None, True, None)
    /\ InitActors
    /\ InitRooms
    /\ InitThreads

\* Health and combat: take_damage, heal and attack on every actor.
NextCombat ==
    \/ \E f \in Fighters, amount \in Amounts : TakeDamageAct(f, amount)
    \/ \E f \in Fighters, amount \in Amounts : HealAct(f, amount)
    \/ \E a \in Fighters, t \in Fighters, w \in Weapons : AttackAct(a, t, w)

SpecCombat == InitCombat /\ [][NextCombat]_vars

\* The lamp: the coin built as a light source, like the lantern of the demo
\* world, switched on or off.
InitLight ==
    /\ location = [e \in Entities |->
                      CASE e = "R" -> None
                        [] e = "coin" -> "box"
                        [] OTHER -> "R"]
    /\ contents = [e \in Entities |->
                      CASE e = "R" -> <<"table", "box", "actor">>
                        [] e = "box" -> <<"coin">>
                        [] OTHER -> <<>>]
    /\ \E on \in BOOLEAN :
           flags = [InitFlags(FALSE) EXCEPT
                       !["coin"] = IF on THEN {LIGHTBIT, ONBIT} ELSE {LIGHTBIT}]
    /\ last = Call("init", None, None, True, None)
    /\ InitActors
    /\ InitRooms
    /\ InitThreads

\* The objects that carry the lamp about, and where they are put.
LightMovers == {"coin", "box", "actor"}
LightPlaces == {"R", "table", "box", "actor", None}

\* The light of the room while the lamp is moved, switched and shut in the box.
NextLight ==
    \/ \E e \in LightMovers, P \in LightPlaces : MoveToAct(e, P)
    \/ OpenAct("box")
    \/ CloseAct("box")
    \/ SetFlagAct("coin", ONBIT)
    \/ ClearFlagAct("coin", ONBIT)
    \/ \E r \in Rooms, level \in LightLevels : SetLightLevelAct(r, level)
    \/ \E r \in Rooms : IsLitAct(r)

SpecLight == InitLight /\ [][NextLight]_vars

\* The objects moved in and out of the room that is described, the objects
\* whose listing flags are set and cleared, and those flags.
DescribeMovers == {"coin", "actor"}
DescribePlaces == {"R", "box"}
Flagged == {"coin"}
ListingFlags == {INVISIBLE, NDESCBIT}

\* The description of the room while objects come and go, are flagged and
\* unflagged, and the room is entered and looked at; a room put into a room's
\* contents is the one object there without fdesc and ldesc.
NextDescribe ==
    \/ \E e \in DescribeMovers, P \in DescribePlaces : MoveToAct(e, P)
    \/ \E r \in Rooms, P \in Rooms \cup {None} : MoveToAct(r, P)
    \/ \E e \in Flagged, bit \in ListingFlags : SetFlagAct(e, bit)
    \/ \E e \in Flagged, bit \in ListingFlags : ClearFlagAct(e, bit)
    \/ \E r \in Rooms, verbose \in BOOLEAN : DescribeAct(r, verbose)
    \/ \E r \in Rooms, a \in Actors : OnEnterAct(r, a)
    \/ \E r \in Rooms : OnLookAct(r)

SpecDescribe == Init /\ [][NextDescribe]_vars

\* The objects moved, given and dropped under the queries, and where they are
\* moved to.
QueryMovers == {"coin", "box", "actor"}
QueryPlaces == {"R", "box", "actor", None}

\* The queries of the object model on the graphs that move_to, give_item and
\* drop_item build from Init.
NextQueries ==
    \/ \E e \in QueryMovers, P \in QueryPlaces : MoveToAct(e, P)
    \/ \E a \in Actors, item \in QueryMovers : GiveItemAct(a, item)
    \/ \E a \in Actors, item \in QueryMovers : DropItemAct(a, item)
    \/ \E e \in Entities, a \in Actors : IsAccessibleAct(e, a)
    \/ \E r \in Rooms : IsLitAct(r)
    \/ \E e \in Entities : GetRoomAct(e)
    \/ \E e \in Entities, c \in Entities : IsInAct(e, c)
    \/ \E c \in Containers, obj \in Entities : CanHoldAct(c, obj)
    \/ \E c \in Containers : GetVisibleContentsAct(c)
    \/ \E e \in {x \in Entities : has_get_weight(x)} : GetWeightAct(e)

SpecQueries == Init /\ [][NextQueries]_vars

\* The objects the threads move, and where to.
ThreadMovers == {"coin", "box"}
ThreadPlaces == {"R", "table", "actor", None}

\* Two threads, each calling move_to once, their statements interleaved in
\* every way.
NextThreads ==
    \/ \E t \in Threads, e \in ThreadMovers, P \in ThreadPlaces :
           StartMoveToAct(t, e, P)
    \/ \E t \in Threads : MoveToStepAct(t)

SpecThreads == Init /\ [][NextThreads]_vars

----------------------------------------------------------------------------
(* Properties of the containment graph, under Spec.                        *)

\* The objects on the parent chain of obj, obj included, up to the root or to the
\* first object met twice.
RECURSIVE ChainFrom(_, _, _)
ChainFrom(loc, obj, acc) ==
    IF obj = None \/ obj \in acc THEN acc
    ELSE ChainFrom(loc, loc[obj], acc \cup {obj})

\* The proper ancestors of e: what following location one or more times reaches.
Ancestors(loc, e) == ChainFrom(loc, loc[e], {})

\* B is A itself or lies in the subtree under A.
SelfOrDescendant(loc, B, A) == B = A \/ A \in Ancestors(loc, B)

\* C1: every object is listed exactly once in the contents of the object its
\* location names, and in no other contents list.
C1_ContentsMatchLocation ==
    \A e \in Entities, p \in Entities :
        Count(e, contents[p]) = IF location[e] = p THEN 1 ELSE 0

\* C1 witness: an object that was given to the actor has been dropped into the
\* room, so it has left one contents list and joined another.
C1_Witness ==
    /\ last.op = "drop_item"
    /\ last.ok = True
    /\ last.prev = last.target
    /\ location[last.obj] \in Rooms
    /\ InSeq(last.obj, contents[location[last.obj]])
    /\ ~InSeq(last.obj, contents[last.target])

\* C2: after e.move_to(P), e.location is P, e is in P.contents when P is an
\* object and in no contents list when P is none, and e is no longer in the
\* contents of the parent it had before, when that is not P.
C2_MoveToPostcondition ==
    last.op = "move_to" =>
        LET e == last.obj
            P == last.target
        IN  /\ location[e] = P
            /\ P # None => InSeq(e, contents[P])
            /\ P = None => \A p \in Entities : ~InSeq(e, contents[p])
            /\ (last.prev # None /\ last.prev # P) => ~InSeq(e, contents[last.prev])

\* C2 witness: a move from one parent to a different one.
C2_Witness ==
    /\ last.op = "move_to"
    /\ last.prev # None
    /\ last.target # None
    /\ last.prev # last.target
    /\ location[last.obj] = last.target
    /\ InSeq(last.obj, contents[last.target])

\* C3: A.move_to(B) with B being A or a descendant of A leaves every location and
\* every contents list as it was.
C3_CycleMoveRejected ==
    [][\A A \in Entities, B \in Entities :
          (MoveToAct(A, B) /\ SelfOrDescendant(location, B, A))
              => UNCHANGED <<location, contents>>]_vars

\* No object of the graph loc is among its own ancestors.
NoCycle(loc) == \A e \in Entities : e \notin Ancestors(loc, e)

\* C4: in every reachable state containment is acyclic: no object is reachable
\* from itself by following location one or more times.
C4_Acyclic == NoCycle(location)

\* C5: a Room never has a parent: no step gives a Room a location, and a move_to
\* on a Room with an object as target leaves the graph unchanged.
C5_RoomHasNoParent ==
    [][/\ \A r \in Rooms : location'[r] = None
       /\ \A r \in Rooms, P \in Entities :
              MoveToAct(r, P) => UNCHANGED <<location, contents>>]_vars

\* C6: a move_to(e, P) that follows a move_to(e, P) changes no location and no
\* contents list, and e is listed exactly once in P.contents.
C6_MoveToIdempotent ==
    [][\A e \in Entities, P \in Entities \cup {None} :
          (last.op = "move_to" /\ last.obj = e /\ last.target = P /\ MoveToAct(e, P))
              => /\ UNCHANGED <<location, contents>>
                 /\ P # None => Count(e, contents'[P]) = 1]_vars

\* C6 witness: move_to has been called on an object with the parent it already
\* had, and the object is listed there once.
C6_Witness ==
    /\ last.op = "move_to"
    /\ last.target # None
    /\ last.prev = last.target
    /\ Count(last.obj, contents[last.target]) = 1

----------------------------------------------------------------------------
(* Properties of the accessibility resolver, under SpecAccess.             *)

\* The stops of the walk for actor a: a itself and a's enclosing room, if any.
Stops(a) ==
    LET actor_room == get_room(location, a)
    IN  {a} \cup (IF actor_room \in Entities THEN {actor_room} ELSE {})

\* The ancestors of e met before a stop, the root or an object met twice.
RECURSIVE BeforeStopFrom(_, _, _)
BeforeStopFrom(obj, stops, acc) ==
    IF obj = None \/ obj \in stops \/ obj \in acc THEN acc
    ELSE BeforeStopFrom(location[obj], stops, acc \cup {obj})

Intermediate(e, a) == BeforeStopFrom(location[e], Stops(a), {})

\* The parent chain of e reaches a stop.
RECURSIVE ReachesFrom(_, _, _)
ReachesFrom(obj, stops, acc) ==
    IF obj = None \/ obj \in acc THEN FALSE
    ELSE IF obj \in stops THEN TRUE
    ELSE ReachesFrom(location[obj], stops, acc \cup {obj})

Reaches(e, a) == ReachesFrom(location[e], Stops(a), {})

\* A container that is neither open (a surface is open) nor transparent.
ClosedOpaque(c) ==
    /\ kind[c] = "Container"
    /\ ~is_open(flags, c)
    /\ ~is_transparent(flags, c)

\* The end-to-end world: box and actor directly in room R, coin directly in box,
\* the box not transparent.
EndToEnd ==
    /\ location["R"] = None
    /\ location["box"] = "R"
    /\ location["actor"] = "R"
    /\ location["coin"] = "box"
    /\ ~is_transparent(flags, "box")

\* C7: in the end-to-end world the coin is not accessible to the actor while the
\* box is closed, and is accessible once box.open() has succeeded.
C7_OpenCloseFlipsAccess ==
    EndToEnd =>
        /\ ~is_open(flags, "box")
              => is_accessible_to(location, flags, "coin", "actor") = False
        /\ (last.op = "open" /\ last.obj = "box" /\ last.ok = True)
              => is_accessible_to(location, flags, "coin", "actor") = True

C9_HeldIsAccessible ==
    (last.op = "is_accessible_to" /\ location[last.obj] = last.target)
        => last.ok = True

\* C9 witness: the actor sits inside the closed box and holds the coin.
C9_Witness ==
    /\ last = Call("is_accessible_to", "coin", "actor", True, "actor")
    /\ location["coin"] = "actor"
    /\ location["actor"] = "box"
    /\ ClosedOpaque("box")

\* C10: when e's parent chain reaches the actor or the actor's room and every
\* Container met before it is open or transparent, is_accessible_to answers True.
C10_OpenChainIsAccessible ==
    (/\ last.op = "is_accessible_to"
     /\ Reaches(last.obj, last.target)
     /\ \A c \in Intermediate(last.obj, last.target) : ~ClosedOpaque(c))
        => last.ok = True

----------------------------------------------------------------------------
(* Properties of the container state machine, under SpecContainer.         *)

\* The container c was called with one of its four transitions in this step.
ContainerCall(c) == OpenAct(c) \/ CloseAct(c) \/ LockAct(c) \/ UnlockAct(c)

\* What C11 says of a call of open() that takes the flags from fl to fl2 and
\* returns r: it fails with the locked message and changes nothing, unlock()
\* then succeeds leaving Closed+Unlocked, and open() then succeeds leaving
\* Open+Unlocked.
LockedSequence(c, fl, r, fl2) ==
    LET r2 == unlock(fl2, c)
        r3 == open(r2.flags, c)
    IN  /\ r.ok = False
        /\ r.msg = "The {short_desc} is locked."
        /\ fl2 = fl
        /\ r2.ok = True
        /\ ~is_open(r2.flags, c) /\ ~is_locked(r2.flags, c)
        /\ r2.flags = [fl EXCEPT ![c] = @ \ {LOCKEDBIT}]
        /\ r3.ok = True
        /\ is_open(r3.flags, c) /\ ~is_locked(r3.flags, c)

\* C11 as stated, for every non-surface container: from Closed+Locked, open()
\* fails with the locked message and changes nothing, unlock() then succeeds
\* leaving Closed+Unlocked, and open() then succeeds leaving Open+Unlocked.
C11_LockedSequenceAnyContainer ==
    [][\A c \in Containers :
          (OpenAct(c) /\ ~is_surface[c]
              /\ ~is_open(flags, c) /\ is_locked(flags, c)) =>
              LockedSequence(c, flags, open(flags, c), flags')]_vars

\* C11, amended: for every non-surface container that carries OPENABLE and is
\* Closed+Locked, open() fails with the locked message and leaves the flags as
\* they are, a following unlock() succeeds and leaves Closed+Unlocked, and a
\* following open() succeeds and leaves Open+Unlocked.
C11_LockedSequence ==
    [][\A c \in Containers :
          (OpenAct(c) /\ ~is_surface[c] /\ is_openable(flags, c)
              /\ ~is_open(flags, c) /\ is_locked(flags, c)) =>
              LockedSequence(c, flags, open(flags, c), flags')]_vars

\* C11's case: the openable box is Closed+Locked and open() has just failed on
\* it; unlock() would now succeed.
C11_Witness ==
    /\ last = Call("open", "box", None, False, "R")
    /\ is_openable(flags, "box")
    /\ ~is_open(flags, "box") /\ is_locked(flags, "box")
    /\ unlock(flags, "box").ok = True

\* C12 as stated, for every non-surface container: open() fails and changes
\* nothing when the container is Open or Locked, and succeeds leaving it Open
\* when it is Closed and Unlocked.
C12_OpenAnyContainer ==
    [][\A c \in Containers :
          (OpenAct(c) /\ ~is_surface[c]) =>
              IF is_open(flags, c) \/ is_locked(flags, c)
              THEN last'.ok = False /\ flags' = flags
              ELSE last'.ok = True /\ is_open(flags', c)]_vars

\* C12, amended: for every non-surface container that carries OPENABLE, open()
\* fails and changes nothing when the container is Open or Locked, and in the
\* one other state, Closed and Unlocked, succeeds and leaves it Open and
\* Unlocked; without OPENABLE open() fails and changes nothing in every state.
C12_OpenTransitions ==
    [][\A c \in Containers :
          (OpenAct(c) /\ ~is_surface[c]) =>
              IF ~is_openable(flags, c) \/ is_open(flags, c) \/ is_locked(flags, c)
              THEN last'.ok = False /\ flags' = flags
              ELSE /\ last'.ok = True
                   /\ is_open(flags', c) /\ ~is_locked(flags', c)
                   /\ flags' = [flags EXCEPT ![c] = @ \cup {OPENBIT}]]_vars

\* C12's case: open() has just succeeded on the box, which is now Open.
C12_Witness ==
    /\ last = Call("open", "box", None, True, "R")
    /\ is_openable(flags, "box")
    /\ is_open(flags, "box") /\ ~is_locked(flags, "box")

\* C13 as stated, for every non-surface container: close() fails and changes
\* nothing when the container is not Open, and succeeds whenever it is Open,
\* leaving it Closed with the locked flag as it was.
C13_CloseAnyContainer ==
    [][\A c \in Containers :
          (CloseAct(c) /\ ~is_surface[c]) =>
              IF ~is_open(flags, c)
              THEN last'.ok = False /\ flags' = flags
              ELSE /\ last'.ok = True
                   /\ ~is_open(flags', c)
                   /\ is_locked(flags', c) = is_locked(flags, c)]_vars

\* C13, amended: for every non-surface container that carries OPENABLE,
\* close() fails and changes nothing when the container is not Open, and
\* succeeds whenever it is Open, leaving it Closed with the locked flag as it
\* was; without OPENABLE close() fails and changes nothing in every state.
C13_CloseTransitions ==
    [][\A c \in Containers :
          (CloseAct(c) /\ ~is_surface[c]) =>
              IF ~is_openable(flags, c) \/ ~is_open(flags, c)
              THEN last'.ok = False /\ flags' = flags
              ELSE /\ last'.ok = True
                   /\ ~is_open(flags', c)
                   /\ is_locked(flags', c) = is_locked(flags, c)
                   /\ flags' = [flags EXCEPT ![c] = @ \ {OPENBIT}]]_vars

\* C13's case: close() has just succeeded on the box, built Open and Locked; it
\* is now Closed and still Locked.
C13_Witness ==
    /\ last = Call("close", "box", None, True, "R")
    /\ ~is_open(flags, "box") /\ is_locked(flags, "box")

\* C14: lock() on a non-surface container succeeds only from Closed+Unlocked,
\* leaving Closed+Locked; on an Open container and on a Locked one it fails and
\* leaves the flags as they are.
C14_LockTransitions ==
    [][\A c \in Containers :
          (LockAct(c) /\ ~is_surface[c]) =>
              IF ~is_open(flags, c) /\ ~is_locked(flags, c)
              THEN /\ last'.ok = True
                   /\ ~is_open(flags', c) /\ is_locked(flags', c)
                   /\ flags' = [flags EXCEPT ![c] = @ \cup {LOCKEDBIT}]
              ELSE last'.ok = False /\ flags' = flags]_vars

\* C14's case: lock() has just succeeded on the box, now Closed+Locked.
C14_Witness ==
    /\ last = Call("lock", "box", None, True, "R")
    /\ ~is_open(flags, "box") /\ is_locked(flags, "box")

\* C15: a surface is open in every reachable state, and open(), close(), lock()
\* and unlock() on it each fail and leave the flags as they are.
C15_SurfaceFixed ==
    [][\A c \in Containers :
          is_surface[c] =>
              /\ is_open(flags, c) /\ is_open(flags', c)
              /\ ContainerCall(c) => (last'.ok = False /\ flags' = flags)]_vars

\* C15's case: unlock() has just failed on the table, a surface built with
\* LOCKEDBIT, which still carries it.
C15_Witness ==
    /\ last = Call("unlock", "table", None, False, "R")
    /\ is_surface["table"]
    /\ is_locked(flags, "table")
    /\ is_open(flags, "table")

\* C16: open(), close(), lock() and unlock() always return True or False with
\* a message, change at most OPENBIT and LOCKEDBIT of the container they are
\* called on, and leave every location and every contents list as they are.
C16_TransitionsArePureFlagChanges ==
    [][\A c \in Containers :
          ContainerCall(c) =>
              /\ last'.ok \in {True, False}
              /\ \A e \in Entities \ {c} : flags'[e] = flags[e]
              /\ (flags'[c] \ flags[c]) \cup (flags[c] \ flags'[c])
                     \subseteq {OPENBIT, LOCKEDBIT}
              /\ location' = location
              /\ contents' = contents]_vars

\* C16's case: close() has just succeeded on the box with the coin inside; the
\* box keeps OPENABLE and CONTBIT and the coin is where it was.
C16_Witness ==
    /\ last = Call("close", "box", None, True, "R")
    /\ {CONTBIT, OPENABLE} \subseteq flags["box"]
    /\ location["coin"] = "box" /\ contents["box"] = <<"coin">>

----------------------------------------------------------------------------
(* Properties of what a container shows and holds, under SpecContents.     *)

\* r lists elements of s in the order s has them.
IsSubsequence(r, s) ==
    \E f \in [1..Len(r) -> 1..Len(s)] :
        /\ \A i \in 1..Len(r) : s[f[i]] = r[i]
        /\ \A i, j \in 1..Len(r) : i < j => f[i] < f[j]

\* C17: get_visible_contents() returns, in contents order, exactly the direct
\* contents that do not carry INVISIBLE when the container is Open, Transparent
\* or a Surface, and the empty list otherwise.
C17_VisibleContents ==
    \A c \in Containers :
        LET r == get_visible_contents(contents, flags, c)
        IN  IF is_open(flags, c) \/ is_transparent(flags, c) \/ is_surface[c]
            THEN /\ \A e \in Entities :
                        Count(e, r) = IF has_flag(flags, e, INVISIBLE) THEN 0
                                      ELSE Count(e, contents[c])
                 /\ IsSubsequence(r, contents[c])
            ELSE r = <<>>

\* C17's case: get_visible_contents() has just been called on the table, which
\* holds three objects, and on the closed opaque box; the table shows two of its
\* three in their order, the hidden one left out.
C17_Witness ==
    /\ last.op = "get_visible_contents"
    /\ last.obj = "table"
    /\ Len(contents["table"]) = 3
    /\ Len(get_visible_contents(contents, flags, "table")) = 2
    /\ \E e \in Hideable :
           InSeq(e, contents["table"]) /\ has_flag(flags, e, INVISIBLE)

\* The objects nested inside e at any depth, e included.
Subtree(loc, e) == {d \in Entities : SelfOrDescendant(loc, d, e)}

\* The own size of an object: the size it was built with, and for an object
\* without one the size can_hold takes in its place.
OwnSize(e) == IF has_size(e) THEN size[e] ELSE DefaultSize

\* The sum of the own sizes of the objects of S.
RECURSIVE SumSizes(_)
SumSizes(S) ==
    IF S = {} THEN 0
    ELSE LET e == CHOOSE x \in S : TRUE
         IN  OwnSize(e) + SumSizes(S \ {e})

\* The recursive weight of e on an acyclic graph: its own size plus the
\* recursive weight of everything nested inside it.
RecursiveWeight(loc, e) == SumSizes(Subtree(loc, e))

\* The sum of the recursive weights of the direct contents of c.
ContentsRecursiveWeight(loc, c) ==
    SumSizes(UNION {Subtree(loc, o) : o \in {d \in Entities : loc[d] = c}})

\* C18: on an acyclic graph, can_hold(obj) called with an item, a container or
\* an actor that does not enclose the container returns True exactly when the
\* recursive weights of the direct contents of the container plus the recursive
\* weight of obj do not exceed the capacity.
C18_CanHoldIsRecursiveWeight ==
    (/\ last.op = "can_hold"
     /\ last.target \notin Rooms
     /\ NoCycle(location)
     /\ ~SelfOrDescendant(location, last.obj, last.target)) =>
        last.ok = IF ContentsRecursiveWeight(location, last.obj)
                         + RecursiveWeight(location, last.target)
                         <= capacity[last.obj]
                  THEN True
                  ELSE False

----------------------------------------------------------------------------
(* Properties of health and combat, under SpecCombat.                      *)

\* C19: after construction and any sequence of take_damage, heal and attack
\* with any integer amounts, every actor has 0 <= health <= max_health.
C19_HealthInRange ==
    \A f \in Fighters : 0 <= health[f] /\ health[f] <= max_health[f]

\* C20: in every reachable state, the dead flag of every actor is true exactly
\* when its health is 0.
C20_DeadIffHealthZero ==
    \A f \in Fighters : is_dead[f] <=> health[f] = 0

\* C21: once an actor is dead its health is 0, and every later take_damage,
\* heal or attack, with it as attacker or as target, leaves its health at 0 and
\* its dead flag true; take_damage then applies no damage and reports the
\* death, heal returns 0, and each of the calls returns.
C21_DeadIsTerminal ==
    [][\A f \in Fighters :
          is_dead[f] =>
              /\ health[f] = 0
              /\ health'[f] = 0 /\ is_dead'[f]
              /\ (last'.op = "take_damage" /\ last'.obj = f) =>
                     /\ take_damage(health, is_dead, f, last'.amount).actual = 0
                     /\ last'.ok = True
                     /\ health' = health /\ is_dead' = is_dead
              /\ (last'.op = "heal" /\ last'.obj = f) =>
                     /\ heal(health, is_dead, f, last'.amount).healed = 0
                     /\ last'.ok = Returned
                     /\ health' = health /\ is_dead' = is_dead
              /\ (last'.op = "attack" /\ f \in {last'.obj, last'.target}) =>
                     /\ last'.ok = False
                     /\ health' = health /\ is_dead' = is_dead]_vars

\* C21's case: the actor is dead and heal(5) has just been called on it; its
\* health was 0 before and is 0 still.
C21_Witness ==
    /\ last.op = "heal" /\ last.obj = "actor"
    /\ last.amount = SmallAmount /\ last.prev = 0
    /\ is_dead["actor"]
    /\ health["actor"] = 0

\* C22: for an alive actor with health h, take_damage(amount) returns
\* (min(amount, h), died), sets health to h - min(amount, h), and died is true,
\* and dead set, exactly when that health is 0.
C22_TakeDamageOnAlive ==
    [][(last'.op = "take_damage" /\ is_alive(health, is_dead, last'.obj)) =>
          LET f == last'.obj
              amount == last'.amount
              h == health[f]
              applied == IF amount <= h THEN amount ELSE h
              r == take_damage(health, is_dead, f, amount)
          IN  /\ r.actual = applied
              /\ health'[f] = h - applied
              /\ (r.died = True) <=> (health'[f] = 0)
              /\ r.died \in {True, False}
              /\ last'.ok = r.died
              /\ is_dead'[f] <=> (r.died = True)
              /\ \A g \in Fighters \ {f} :
                     health'[g] = health[g] /\ is_dead'[g] = is_dead[g]]_vars

\* C22's case: take_damage(15) has just been called on the actor with health
\* 10; it returned died and the actor is dead with health 0.
C22_Witness ==
    /\ DefaultHealth = 10 /\ MaxAmount >= 15
    /\ last.op = "take_damage" /\ last.obj = "actor"
    /\ last.amount = MaxAmount /\ last.prev = DefaultHealth
    /\ last.ok = True
    /\ health["actor"] = 0
    /\ is_dead["actor"]

\* C23: for an actor that is not dead with health h, heal(amount) sets health
\* to min(h + amount, max_health), returns the new health minus h, never lowers
\* the health and never changes the dead flag; on a dead actor it returns 0 and
\* changes nothing.
C23_HealRaisesHealth ==
    [][last'.op = "heal" =>
          LET f == last'.obj
              amount == last'.amount
              h == health[f]
              r == heal(health, is_dead, f, amount)
          IN  /\ is_dead' = is_dead
              /\ IF is_dead[f]
                 THEN r.healed = 0 /\ health' = health
                 ELSE /\ health'[f] = IF h + amount <= max_health[f]
                                      THEN h + amount
                                      ELSE max_health[f]
                      /\ r.healed = health'[f] - h
                      /\ health'[f] >= h]_vars

\* C24: whenever the attacker or the target is not alive, attack returns hit
\* False and damage 0 with one of its two refusal messages, and changes the
\* health and the dead flag of no actor.
C24_AttackNeedsBothAlive ==
    [][(/\ last'.op = "attack"
        /\ \/ ~is_alive(health, is_dead, last'.obj)
           \/ ~is_alive(health, is_dead, last'.target)) =>
          /\ last'.ok = False
          /\ \A d \in DamageDraws(base_damage(flags, last'.obj, last'.weapon)) :
                 LET r == attack(health, is_dead, flags, last'.obj, last'.target,
                                 last'.weapon, d)
                 IN  /\ r.damage = 0
                     /\ r.msg \in {"You are dead and cannot attack.",
                                   "The {short_desc} is already dead."}
          /\ health' = health
          /\ is_dead' = is_dead]_vars

\* C24's case: the troll, dead, has just attacked the actor, alive and at full
\* health; the attack was refused.
C24_Witness ==
    /\ last.op = "attack" /\ last.obj = "troll" /\ last.target = "actor"
    /\ last.ok = False /\ last.prev = max_health["actor"]
    /\ is_dead["troll"]
    /\ is_alive(health, is_dead, "actor")
    /\ health["actor"] = max_health["actor"]

\* What C25 says of an attack of a on t with weapon w that takes the fields to
\* h2 and dead2 and returns hit: some d in [floor(base / 2), 2 * base] was
\* drawn, the target lost min(d, its health), that amount is the damage, hit is
\* true iff it is above 0, the message reports the death iff the target's
\* health reached 0 and a miss iff the amount is 0, and nobody else changed.
AttackOutcome(a, t, w, h2, dead2, hit) ==
    LET base == strength[a]
                    + (IF w # None /\ has_flag(flags, w, WEAPONBIT)
                       THEN get_property(w, "damage", 1)
                       ELSE 0)
    IN  \E d \in (base \div 2)..(2 * base) :
            LET amount == IF d <= health[t] THEN d ELSE health[t]
                r == attack(health, is_dead, flags, a, t, w, d)
            IN  /\ h2[t] = health[t] - amount
                /\ r.health = h2 /\ r.is_dead = dead2
                /\ r.damage = amount
                /\ r.hit = hit
                /\ hit = IF amount > 0 THEN True ELSE False
                /\ (r.msg = "The {short_desc} is killed!") <=> (h2[t] = 0)
                /\ (r.msg = "The attack misses!") <=> (amount = 0)
                /\ dead2[t] <=> (h2[t] = 0)
                /\ \A g \in Fighters \ {t} :
                       h2[g] = health[g] /\ dead2[g] = is_dead[g]

----------------------------------------------------------------------------
(* The light of a room.                                                    *)

\* The objects in the content subtree of room r that carry both LIGHTBIT and
\* ONBIT.
LitSources(r) ==
    {e \in Subtree(location, r) \ {r} :
        has_flag(flags, e, LIGHTBIT) /\ has_flag(flags, e, ONBIT)}

\* C26: is_lit() of a room is true exactly when its light_level is positive or
\* some object anywhere in its content subtree, at any depth, inside a closed
\* container or held by an actor in the room, carries both LIGHTBIT and ONBIT.
C26_LitBySubtree ==
    last.op = "is_lit" =>
        ((last.ok = True) <=>
            (light_level[last.obj] > 0 \/ LitSources(last.obj) # {}))

----------------------------------------------------------------------------
(* The description of a room.                                              *)

\* C27: describe(verbose=False) on a room that was never visited includes the
\* long description exactly once, and a describe(verbose=False) that follows a
\* describe(verbose=False) of the same room, with no call in between, omits it.
C27_SecondDescribeIsBrief ==
    [][(last'.op = "describe" /\ last'.target = False) =>
          LET r == last'.obj
          IN  /\ ~visited[r] => Count(long_desc[r], output') = 1
              /\ (last.op = "describe" /\ last.obj = r /\ last.target = False) =>
                     Count(long_desc[r], output') = 0]_vars

\* The last n parts of a description: the lines of the n objects it lists.
ObjectLines(out, n) == SubSeq(out, Len(out) - n + 1, Len(out))

\* C28: over describe, move_to and the other calls the seen mark of an object
\* is never cleared and is set only by a describe that lists the object; a
\* describe lists the objects of the room's contents as they are at the call,
\* and for each listed object with a first-seen text it emits that text and
\* marks the object seen if the object was not seen, and emits the subsequent
\* text if it was: so the first-seen text is emitted at most once.
C28_FirstSeenOnce ==
    [][/\ \A e \in Entities : obj_seen[e] => obj_seen'[e]
       /\ \A e \in Entities :
              (obj_seen'[e] /\ ~obj_seen[e]) =>
                  /\ last'.op = "describe"
                  /\ InSeq(e, visible_objects(contents, flags, last'.obj))
       /\ last'.op = "describe" =>
              LET objs == visible_objects(contents, flags, last'.obj)
                  lines == ObjectLines(output', Len(objs))
              IN  /\ Len(output') >= Len(objs)
                  /\ \A i \in 1..Len(objs) :
                         LET e == objs[i]
                         IN  has_fdesc(e) =>
                                 IF ~obj_seen[e] /\ \A j \in 1..(i - 1) : objs[j] # e
                                 THEN lines[i] = fdesc[e] /\ obj_seen'[e]
                                 ELSE lines[i] = ldesc[e]]_vars

\* C28's case: the coin, seen in an earlier description, is listed in the room
\* again and gets its subsequent text.
C28_Witness ==
    /\ last.op = "describe"
    /\ InSeq("coin", visible_objects(contents, flags, last.obj))
    /\ obj_seen["coin"]
    /\ InSeq(ldesc["coin"], output)
    /\ ~InSeq(fdesc["coin"], output)

\* The direct contents of room r that do not carry NDESCBIT, in contents order.
WithoutNoDesc(r) ==
    SelectSeq(contents[r], LAMBDA obj : ~has_flag(flags, obj, NDESCBIT))

\* C29: describe lists exactly the direct contents of the room that do not
\* carry NDESCBIT: the objects it lists are those, one line each; an object of
\* the contents that carries NDESCBIT is not marked seen by the call, and one
\* that does not carry it and has a first-seen text is seen after the call.
C29_ListsAllButNoDesc ==
    [][last'.op = "describe" =>
          LET r == last'.obj
              head == 2 + (IF last'.target = True \/ ~visited[r] THEN 1 ELSE 0)
              n == Len(WithoutNoDesc(r))
          IN  /\ visible_objects(contents, flags, r) = WithoutNoDesc(r)
              /\ Len(output') = head + (IF n > 0 THEN n + 1 ELSE 0)
              /\ \A i \in 1..Len(contents[r]) :
                     LET e == contents[r][i]
                     IN  IF has_flag(flags, e, NDESCBIT)
                         THEN obj_seen'[e] = obj_seen[e]
                         ELSE has_fdesc(e) => obj_seen'[e]]_vars

\* Object e has neither a first-seen nor a subsequent text: each is absent or
\* empty.
NoText(e) ==
    /\ ~has_fdesc(e) \/ fdesc[e] = ""
    /\ ~has_ldesc(e) \/ ldesc[e] = ""

\* C30: for a listed object that has neither a first-seen nor a subsequent
\* text, describe emits the presence line built from the object's short
\* description, and not an empty line.
C30_PresenceLineForNoText ==
    [][last'.op = "describe" =>
          LET objs == visible_objects(contents, flags, last'.obj)
              lines == ObjectLines(output', Len(objs))
          IN  \A i \in 1..Len(objs) :
                  NoText(objs[i]) =>
                      /\ lines[i] = PresenceLine(objs[i])
                      /\ lines[i] # ""]_vars

----------------------------------------------------------------------------
(* The queries.                                                            *)

\* The calls C31 names.
QueryOps ==
    {"is_accessible_to", "is_lit", "get_room", "is_in", "can_hold",
     "get_visible_contents"}

\* C31: is_accessible_to, is_lit, get_room, is_in, can_hold and
\* get_visible_contents leave every location, contents list, flag set, health,
\* dead flag, seen mark and visited mark as it was, and is_accessible_to
\* always returns True or False.
C31_QueriesAreReadOnly ==
    [][last'.op \in QueryOps =>
          /\ UNCHANGED <<location, contents, flags, health, is_dead,
                         obj_seen, visited>>
          /\ last'.op = "is_accessible_to" => last'.ok \in {True, False}]_vars

\* The nearest Room within n steps up the parent chain from obj, obj included,
\* and None when there is none.
RECURSIVE NearestRoomWithin(_, _, _)
NearestRoomWithin(loc, obj, n) ==
    IF obj = None \/ n = 0 THEN None
    ELSE IF obj \in Rooms THEN obj
    ELSE NearestRoomWithin(loc, loc[obj], n - 1)

\* The nearest Room on the parent chain of e, e included: a chain has no more
\* distinct objects than there are objects.
NearestRoom(loc, e) == NearestRoomWithin(loc, e, Cardinality(Entities))

\* C32: get_room(e) returns the nearest Room on the parent chain of e, e
\* included, and None exactly when no object of the chain is a Room; is_in(e, c)
\* is true exactly when the location of e is c.
C32_GetRoomAndIsIn ==
    /\ last.op = "get_room" =>
           /\ last.ok = NearestRoom(location, last.obj)
           /\ last.obj \in Rooms => last.ok = last.obj
           /\ (last.ok = None) <=>
                  (ChainFrom(location, last.obj, {}) \cap Rooms = {})
    /\ last.op = "is_in" =>
           ((last.ok = True) <=> (location[last.obj] = last.target))

\* The traversals C34 names.
Traversals == {"get_room", "is_accessible_to", "get_weight", "can_hold"}

\* C34: on every graph that move_to, give_item and drop_item build from the
\* world as constructed, get_room, is_accessible_to, get_weight and can_hold
\* come to an end: no loop runs for ever, and no recursion runs until the
\* interpreter cuts it off.
C34_TraversalsTerminate ==
    last.op \in Traversals => last.ok \notin {Diverges, Raises}

----------------------------------------------------------------------------
(* Open and Locked.                                                        *)

\* C35: a non-surface container that is not both Open and Locked is not both
\* Open and Locked after an open(), close(), lock() or unlock() on any
\* container, so one that does not start so never becomes so; lock() succeeds
\* only on a Closed container and open() only on an Unlocked one.
C35_NeverOpenAndLocked ==
    [][/\ \A c \in Containers :
              (~is_surface[c] /\ ~(is_open(flags, c) /\ is_locked(flags, c))) =>
                  ~(is_open(flags', c) /\ is_locked(flags', c))
       /\ (last'.op = "lock" /\ last'.ok = True) => ~is_open(flags, last'.obj)
       /\ (last'.op = "open" /\ last'.ok = True) => ~is_locked(flags, last'.obj)]_vars

\* C35's case: open() has just been refused on the box, which is Closed and
\* Locked and stays so.
C35_Witness ==
    /\ last = Call("open", "box", None, False, "R")
    /\ is_openable(flags, "box")
    /\ is_locked(flags, "box") /\ ~is_open(flags, "box")

----------------------------------------------------------------------------
(* Dropping.                                                               *)

\* C36: a.drop_item(item) returns True exactly when item is a direct child of
\* a and a has an enclosing room, and returns False otherwise; after True the
\* item is a direct child of that room, also when a is nested in a container,
\* and is no longer in the inventory of a; after False every location and every
\* contents list is as before.
C36_DropItem ==
    [][last'.op = "drop_item" =>
          LET item == last'.obj
              a == last'.target
              room == NearestRoom(location, a)
              succeeds == location[item] = a /\ InSeq(item, contents[a])
                              /\ room # None
          IN  /\ last'.ok = IF succeeds THEN True ELSE False
              /\ succeeds =>
                     /\ location'[item] = room
                     /\ InSeq(item, contents'[room])
                     /\ ~InSeq(item, contents'[a])
              /\ ~succeeds => UNCHANGED <<location, contents>>]_vars

----------------------------------------------------------------------------
(* The visited mark.                                                       *)

\* C37: the visited mark of a room is never reset; it is changed by on_enter
\* alone, which sets it when the room's action does not handle ENTER and
\* leaves it as it is when the action handles ENTER; describe and on_look do
\* not change it.
C37_VisitedMonotone ==
    [][/\ \A r \in Rooms : visited[r] => visited'[r]
       /\ visited' # visited => last'.op = "on_enter"
       /\ last'.op = "on_enter" =>
              visited' = IF last'.ok = "NOT_HANDLED"
                         THEN [visited EXCEPT ![last'.obj] = TRUE]
                         ELSE visited
       /\ last'.op \in {"describe", "on_look"} => visited' = visited]_vars

\* C37's case: the room was marked visited by an on_enter its action did not
\* handle, and an on_enter the action handled has just left the mark set.
C37_Witness ==
    /\ last.op = "on_enter" /\ last.ok = "HANDLED"
    /\ visited[last.obj]

----------------------------------------------------------------------------
(* Two movers of one object.                                               *)

\* Thread t has left move_to.
Finished(t) == pc[t].at \in {"done", "raised"}

\* C33: when two threads have each called move_to on the same object with
\* different targets and both calls have ended, however their statements were
\* interleaved, both calls have returned and the object is in the contents
\* list, once, of the object its location names and in no other (in none when
\* the last target was None).
C33_ConcurrentMoveTo ==
    (/\ \A t \in Threads : Finished(t)
     /\ pc["t1"].obj = pc["t2"].obj
     /\ pc["t1"].target # pc["t2"].target) =>
        LET e == pc["t1"].obj
        IN  /\ \A t \in Threads : pc[t].at = "done"
            /\ \A c \in Entities :
                   Count(e, contents[c]) = IF location[e] = c THEN 1 ELSE 0

====
